---- MODULE Spec2Model ----
(***************************************************************************)
(* State-machine model of the mindfuljourney server: the HTTP handlers of  *)
(* server/routes.ts (all revisions kept in the repository), the two        *)
(* IStorage implementations (MemStorage, DatabaseStorage) and the session  *)
(* principal.  Each handler is an operator from the stores and the request *)
(* to a response and the new stores; each action applies one handler.      *)
(***************************************************************************)
EXTENDS Integers, Sequences, FiniteSets, TLC

\* ------------------------------------------------------------------ bounds
MaxUsers == 3       \* user ids handed out by the model
MaxJournals == 1    \* journal ids handed out by the model
MaxMoods == 2       \* mood ids handed out by the model
MaxClock == 1       \* last instant of the model's clock
MaxSubs == 1        \* subscription ids handed out by the billing processor
MaxPending == 2     \* registrations in flight between their check and their insert
MaxPuts == 2        \* journal updates in flight between their check and their write

VARIABLES
  backend,      \* which IStorage is exported as `storage`: "mem" or "db"
  users,        \* storage.users: id -> User
  userSeq,      \* MemStorage.userId / the serial of users.id
  session,      \* client -> the principal cached in its session (NoUser: none)
  subSeq,       \* the next subscription id of the billing processor
  pendingReg,   \* registration body -> requests past the username check
  journals,     \* storage.journals: id -> Journal
  journalSeq,   \* MemStorage.journalId / the serial of journals.id
  creator,      \* history: journal id -> id of the user whose POST created it
  putPending,   \* the PUT /api/journals/:id requests suspended at an await
  moods,        \* storage.moods: id -> Mood
  moodSeq,      \* MemStorage.moodId / the serial of moods.id
  now,          \* the server clock (new Date())
  last          \* the last request handled and its response

vars == <<backend, users, userSeq, session, subSeq, pendingReg, journals, journalSeq, creator,
          putPending, moods, moodSeq, now, last>>

userVars == <<users, userSeq, session, subSeq, pendingReg>>
journalVars == <<journals, journalSeq, creator, putPending>>
moodVars == <<moods, moodSeq>>

\* ---------------------------------------------------------------- helpers
\* The empty function (an empty Map).
EmptyMap == [x \in {} |-> 0]

\* Map.set(k, v)
MapSet(m, k, v) == [x \in (DOMAIN m) \cup {k} |-> IF x = k THEN v ELSE m[x]]

\* Map.delete(k)
MapDelete(m, k) == [x \in (DOMAIN m) \ {k} |-> m[x]]

\* ------------------------------------------------------------------ users
\* shared/schema.ts users table.  stripeSubscriptionId 0 stands for null.
NoUser == [id |-> 0, username |-> "", password |-> "", email |-> "",
           isPremium |-> FALSE, stripeSubscriptionId |-> 0]

Clients == 0 .. MaxUsers      \* client 0 never logs in; client u logs in as user u

\* req.isAuthenticated()
isAuthenticated(p) == p # NoUser

\* The clients that send requests: client 0, which holds no session, and
\* every client that is logged in.
Requesters(sess) == {0} \cup {c \in Clients : isAuthenticated(sess[c])}

\* storage.getUser(id)
getUser(us, id) == IF id \in DOMAIN us THEN us[id] ELSE NoUser

\* The letter-case table of String.prototype.toLowerCase on the model's names.
toLowerCase(s) == IF s = "Amy" THEN "amy" ELSE s

\* Array.prototype.find over Array.from(map.values()), given the ids of the
\* entries that match: the entry with the least id (insertion order), or 0.
FindId(hits) ==
  IF hits = {} THEN 0 ELSE CHOOSE i \in hits : \A k \in hits : i <= k

\* storage.getUserByUsername(username): MemStorage ignores letter case,
\* DatabaseStorage compares with eq().
getUserByUsername(b, us, username) ==
  LET Same(u) == IF b = "mem" THEN toLowerCase(u.username) = toLowerCase(username)
                 ELSE u.username = username
  IN getUser(us, FindId({i \in DOMAIN us : Same(us[i])}))

\* storage.createUser(insertUser).  MemStorage stores whatever it is given;
\* the users table rejects a second row with the same username, and the
\* failed INSERT has already drawn its value from the serial.
createUser(b, us, seq, insertUser) ==
  LET user == [id |-> seq, username |-> insertUser.username,
               password |-> insertUser.password, email |-> insertUser.email,
               isPremium |-> FALSE, stripeSubscriptionId |-> 0]
      taken == \E i \in DOMAIN us : us[i].username = insertUser.username
  IN IF b = "db" /\ taken
     THEN [ok |-> FALSE, users |-> us, userSeq |-> seq + 1, user |-> NoUser]
     ELSE [ok |-> TRUE, users |-> MapSet(us, seq, user), userSeq |-> seq + 1,
           user |-> user]

\* hashPassword(password): the stored form of a password.  The hashes of the
\* model's passwords differ from each other and from the passwords.
hashPassword(password) ==
  IF password = "secret1" THEN "#secret1"
  ELSE IF password = "secret2" THEN "#secret2"
  ELSE "#other"

\* comparePasswords(supplied, stored)
comparePasswords(supplied, stored) == stored = hashPassword(supplied)

\* The registration bodies the model submits.
RegBodies == {[username |-> "amy", password |-> "secret1", email |-> "amy@x.io"],
              [username |-> "bob", password |-> "secret1", email |-> "bob@x.io"]}

\* The record registration hands to createUser: the body with its password
\* hashed.
InsertUserOf(body) == [body EXCEPT !.password = hashPassword(@)]

\* POST /api/register: refuse a username that is taken, else create the user.
HRegister(b, us, seq, body) ==
  IF getUserByUsername(b, us, body.username) # NoUser
  THEN [status |-> 400, users |-> us, userSeq |-> seq]
  ELSE LET r == createUser(b, us, seq, InsertUserOf(body))
       IN [status |-> IF r.ok THEN 201 ELSE 400, users |-> r.users,
           userSeq |-> r.userSeq]

\* The response record kept in `last`.
Resp(op, status) == [op |-> op, status |-> status]

Register ==
  \E body \in RegBodies :
    /\ userSeq <= MaxUsers
    /\ LET r == HRegister(backend, users, userSeq, body)
       IN /\ users' = r.users
          /\ userSeq' = r.userSeq
          /\ last' = Resp("register", r.status)
    /\ UNCHANGED <<backend, session, subSeq, pendingReg, journalVars, moodVars, now>>

\* POST /api/login: the session caches the user record as its principal.
Login ==
  \E c \in Clients :
    /\ c \in DOMAIN users
    /\ session' = [session EXCEPT ![c] = users[c]]
    /\ last' = Resp("login", 200)
    /\ UNCHANGED <<backend, users, userSeq, subSeq, pendingReg, journalVars,
                   moodVars, now>>

\* POST /api/logout: the session loses its principal.
Logout ==
  \E c \in Clients :
    /\ isAuthenticated(session[c])
    /\ session' = [session EXCEPT ![c] = NoUser]
    /\ last' = Resp("logout", 200)
    /\ UNCHANGED <<backend, users, userSeq, subSeq, pendingReg, journalVars,
                   moodVars, now>>

\* Time passes between two requests.
Tick ==
  /\ now < MaxClock
  /\ now' = now + 1
  /\ last' = Resp("tick", 0)
  /\ UNCHANGED <<backend, userVars, journalVars, moodVars>>

\* --------------------------------------------------------------- journals
\* shared/schema.ts journals table.
NoJournal == [id |-> 0, userId |-> 0, title |-> "", content |-> "", mood |-> 0,
              createdAt |-> 0]


\* A JSON number or a JSON value that is no number.
Num(n) == [num |-> TRUE, v |-> n]
NotNum == [num |-> FALSE, v |-> 0]
MoodValues == {Num(3), Num(6), NotNum}

\* Request bodies of POST /api/journals and PUT /api/journals/:id: `has` is
\* the set of keys the JSON object carries.
JournalKeys == {"title", "content", "mood", "userId", "id"}
JournalBody(h, t, c, m, u) ==
  [has |-> h,
   title |-> IF "title" \in h THEN t ELSE "",
   content |-> IF "content" \in h THEN c ELSE "",
   mood |-> IF "mood" \in h THEN m ELSE NotNum,
   userId |-> IF "userId" \in h THEN u ELSE 0,
   id |-> IF "id" \in h THEN 9 ELSE 0]

\* The user ids a client writes into the userId key of a body.
OtherIds == {1, 2}

\* The bodies the model submits: complete ones with every mood value, with
\* and without a userId and an id of the client's choosing, and partial ones.
JournalBodies ==
  {JournalBody({"title", "content", "mood"}, "T1", "C1", m, 0) : m \in MoodValues}
  \cup {JournalBody({"title", "content", "mood", "userId", "id"}, "T1", "C1", Num(3), u) :
          u \in OtherIds}
  \cup {JournalBody({"userId"}, "", "", NotNum, u) : u \in OtherIds}
  \cup {JournalBody({"mood"}, "", "", Num(6), 0),
        JournalBody({"mood"}, "", "", NotNum, 0),
        JournalBody({"title", "id"}, "T2", "", NotNum, 0),
        JournalBody({}, "", "", NotNum, 0)}

\* The journal ids requests name: every id the model hands out and one more.
JournalIds == 1 .. (MaxJournals + 1)

\* insertJournalSchema: the keys picked from the journals table, each with the
\* type of its column (text -> string, integer -> number); unknown keys are
\* stripped.
InsertJournalKeys == {"userId", "title", "content", "mood"}

\* insertJournalSchema.parse(obj): every picked key is required.
insertJournalSchema_parse(obj) ==
  IF InsertJournalKeys \subseteq obj.has /\ obj.mood.num
  THEN [ok |-> TRUE,
        data |-> [has |-> InsertJournalKeys, userId |-> obj.userId,
                  title |-> obj.title, content |-> obj.content,
                  mood |-> obj.mood.v]]
  ELSE [ok |-> FALSE, data |-> NoJournal]

\* insertJournalSchema.partial().parse(obj): every picked key is optional.
insertJournalSchema_partial_parse(obj) ==
  IF "mood" \in obj.has /\ ~obj.mood.num
  THEN [ok |-> FALSE, data |-> NoJournal]
  ELSE [ok |-> TRUE,
        data |-> [has |-> obj.has \cap InsertJournalKeys, userId |-> obj.userId,
                  title |-> obj.title, content |-> obj.content,
                  mood |-> obj.mood.v]]

\* storage.getJournal(id)
getJournal(js, id) == IF id \in DOMAIN js THEN js[id] ELSE NoJournal

\* The foreign key journals.user_id -> users.id of the database.
UserRefOk(b, us, userId) == b = "mem" \/ userId \in DOMAIN us

\* A createJournal that numbers the new journal by the size of the store.
createJournal_bySize(b, us, js, seq, t, journal) ==
  LET newJournal == [id |-> Cardinality(DOMAIN js) + 1, userId |-> journal.userId,
                     title |-> journal.title, content |-> journal.content,
                     mood |-> journal.mood, createdAt |-> t]
  IN [ok |-> TRUE, journals |-> MapSet(js, newJournal.id, newJournal),
      journalSeq |-> seq + 1, journal |-> newJournal]

\* storage.createJournal(journal)
createJournal(b, us, js, seq, t, journal) ==
  LET newJournal == [id |-> seq, userId |-> journal.userId, title |-> journal.title,
                     content |-> journal.content, mood |-> journal.mood,
                     createdAt |-> t]
  IN IF UserRefOk(b, us, journal.userId)
     THEN [ok |-> TRUE, journals |-> MapSet(js, seq, newJournal),
           journalSeq |-> seq + 1, journal |-> newJournal]
     ELSE [ok |-> FALSE, journals |-> js, journalSeq |-> seq + 1,
           journal |-> NoJournal]

\* An update that replaces the record by the body instead of merging.
MergeJournal_replace(existing, journal) ==
  [id |-> existing.id, userId |-> existing.userId, title |-> journal.title,
   content |-> journal.content, mood |-> journal.mood,
   createdAt |-> existing.createdAt]

\* { ...existingJournal, ...journal }
MergeJournal(existing, journal) ==
  [id |-> existing.id,
   userId |-> IF "userId" \in journal.has THEN journal.userId ELSE existing.userId,
   title |-> IF "title" \in journal.has THEN journal.title ELSE existing.title,
   content |-> IF "content" \in journal.has THEN journal.content
               ELSE existing.content,
   mood |-> IF "mood" \in journal.has THEN journal.mood ELSE existing.mood,
   createdAt |-> existing.createdAt]

\* storage.updateJournal(id, journal).  MemStorage throws when the journal is
\* missing; DatabaseStorage also throws on an empty SET list, on a userId
\* that references no user, and when no row was updated.
updateJournal(b, us, js, id, journal) ==
  LET failed == [ok |-> FALSE, journals |-> js, journal |-> NoJournal]
      updatedJournal == MergeJournal(js[id], journal)
  IN IF id \notin DOMAIN js THEN failed
     ELSE IF b = "db" /\ journal.has = {} THEN failed
     ELSE IF "userId" \in journal.has /\ ~UserRefOk(b, us, journal.userId) THEN failed
     ELSE [ok |-> TRUE, journals |-> MapSet(js, id, updatedJournal),
           journal |-> updatedJournal]

\* A deleteJournal that empties the store when the journal exists.
deleteJournal_all(js, id) ==
  [removed |-> id \in DOMAIN js,
   journals |-> IF id \in DOMAIN js THEN EmptyMap ELSE js]

\* storage.deleteJournal(id)
deleteJournal(js, id) == [removed |-> id \in DOMAIN js, journals |-> MapDelete(js, id)]

\* Array.from(map.values()): the values in insertion order, which is the
\* order of the ids.
RECURSIVE MapValues(_)
MapValues(m) ==
  IF DOMAIN m = {} THEN <<>>
  ELSE LET k == CHOOSE i \in DOMAIN m : \A j \in DOMAIN m : j <= i
       IN Append(MapValues(MapDelete(m, k)), m[k])

\* Array.prototype.sort with the comparator a.createdAt - b.createdAt
\* (descending: b.createdAt - a.createdAt); the sort is stable.
RECURSIVE SortByCreatedAt(_, _)
SortByCreatedAt(s, descending) ==
  IF s = <<>> THEN <<>>
  ELSE LET x == s[Len(s)]
           front == SortByCreatedAt(SubSeq(s, 1, Len(s) - 1), descending)
           Stays(e) == IF descending THEN e.createdAt >= x.createdAt
                       ELSE e.createdAt <= x.createdAt
           k == Cardinality({i \in 1 .. Len(front) : Stays(front[i])})
       IN SubSeq(front, 1, k) \o <<x>> \o SubSeq(front, k + 1, Len(front))

\* getJournalsByUserId sorted oldest first.
getJournalsByUserId_ascending(js, userId) ==
  LET Mine(j) == j.userId = userId
  IN SortByCreatedAt(SelectSeq(MapValues(js), Mine), FALSE)

\* storage.getJournalsByUserId(userId)
getJournalsByUserId(js, userId) ==
  LET Mine(j) == j.userId = userId
  IN SortByCreatedAt(SelectSeq(MapValues(js), Mine), TRUE)

\* GET /api/journals
HListJournals(js, p) ==
  IF ~isAuthenticated(p) THEN [status |-> 401, body |-> <<>>]
  ELSE [status |-> 200, body |-> getJournalsByUserId(js, p.id)]

\* GET /api/journals/:id
HGetJournal(js, p, id) ==
  IF ~isAuthenticated(p) THEN [status |-> 401, body |-> NoJournal]
  ELSE LET journal == getJournal(js, id)
       IN IF journal = NoJournal THEN [status |-> 404, body |-> NoJournal]
          ELSE IF journal.userId # p.id THEN [status |-> 403, body |-> NoJournal]
          ELSE [status |-> 200, body |-> journal]

\* POST /api/journals
HPostJournal(b, us, js, seq, t, p, body) ==
  LET same == [status |-> 401, body |-> NoJournal, journals |-> js,
               journalSeq |-> seq]
  IN IF ~isAuthenticated(p) THEN same
     ELSE LET parsed == insertJournalSchema_parse(
                          [body EXCEPT !.has = @ \cup {"userId"}, !.userId = p.id])
          IN IF ~parsed.ok THEN [same EXCEPT !.status = 400]
             ELSE LET r == createJournal(b, us, js, seq, t, parsed.data)
                  IN IF ~r.ok
                     THEN [same EXCEPT !.status = 400, !.journalSeq = r.journalSeq]
                     ELSE [status |-> 201, body |-> r.journal,
                           journals |-> r.journals, journalSeq |-> r.journalSeq]

\* PUT /api/journals/:id
HPutJournal(b, us, js, p, id, body) ==
  LET same == [status |-> 401, body |-> NoJournal, journals |-> js]
  IN IF ~isAuthenticated(p) THEN same
     ELSE LET existingJournal == getJournal(js, id)
          IN IF existingJournal = NoJournal THEN [same EXCEPT !.status = 404]
             ELSE IF existingJournal.userId # p.id THEN [same EXCEPT !.status = 403]
             ELSE LET parsed == insertJournalSchema_partial_parse(body)
                  IN IF ~parsed.ok THEN [same EXCEPT !.status = 400]
                     ELSE LET r == updateJournal(b, us, js, id, parsed.data)
                          IN IF ~r.ok THEN [same EXCEPT !.status = 400]
                             ELSE [status |-> 200, body |-> r.journal,
                                   journals |-> r.journals]

\* DELETE /api/journals/:id with the ownership test ahead of the existence test.
HDeleteJournal_ownerFirst(js, p, id) ==
  LET same == [status |-> 401, journals |-> js]
  IN IF ~isAuthenticated(p) THEN same
     ELSE LET existingJournal == getJournal(js, id)
          IN IF existingJournal.userId # p.id THEN [same EXCEPT !.status = 403]
             ELSE IF existingJournal = NoJournal THEN [same EXCEPT !.status = 404]
             ELSE [status |-> 204, journals |-> deleteJournal(js, id).journals]

\* DELETE /api/journals/:id that deletes before it tests the ownership.
HDeleteJournal_deleteFirst(js, p, id) ==
  LET same == [status |-> 401, journals |-> js]
  IN IF ~isAuthenticated(p) THEN same
     ELSE LET existingJournal == getJournal(js, id)
              gone == deleteJournal(js, id).journals
          IN IF existingJournal = NoJournal THEN [same EXCEPT !.status = 404]
             ELSE IF existingJournal.userId # p.id
             THEN [status |-> 403, journals |-> gone]
             ELSE [status |-> 204, journals |-> gone]

\* DELETE /api/journals/:id
HDeleteJournal(js, p, id) ==
  LET same == [status |-> 401, journals |-> js]
  IN IF ~isAuthenticated(p) THEN same
     ELSE LET existingJournal == getJournal(js, id)
          IN IF existingJournal = NoJournal THEN [same EXCEPT !.status = 404]
             ELSE IF existingJournal.userId # p.id THEN [same EXCEPT !.status = 403]
             ELSE [status |-> 204, journals |-> deleteJournal(js, id).journals]

ListJournals ==
  \E c \in Requesters(session) :
    /\ last' = Resp("listJournals", HListJournals(journals, session[c]).status)
    /\ UNCHANGED <<backend, userVars, journalVars, moodVars, now>>

GetJournal ==
  \E c \in Requesters(session), id \in JournalIds :
    /\ last' = Resp("getJournal", HGetJournal(journals, session[c], id).status)
    /\ UNCHANGED <<backend, userVars, journalVars, moodVars, now>>

PostJournal ==
  \E c \in Requesters(session), body \in JournalBodies :
    /\ journalSeq <= MaxJournals
    /\ LET r == HPostJournal(backend, users, journals, journalSeq, now,
                             session[c], body)
       IN /\ journals' = r.journals
          /\ journalSeq' = r.journalSeq
          /\ creator' = IF r.status = 201
                        THEN MapSet(creator, r.body.id, session[c].id) ELSE creator
          /\ last' = Resp("postJournal", r.status)
    /\ UNCHANGED <<backend, userVars, putPending, moodVars, now>>

PutJournal ==
  \E c \in Requesters(session), id \in JournalIds, body \in JournalBodies :
    /\ LET r == HPutJournal(backend, users, journals, session[c], id, body)
       IN /\ journals' = r.journals
          /\ last' = Resp("putJournal", r.status)
    /\ UNCHANGED <<backend, userVars, journalSeq, creator, putPending, moodVars, now>>

DeleteJournal ==
  \E c \in Requesters(session), id \in JournalIds :
    /\ LET r == HDeleteJournal(journals, session[c], id)
       IN /\ journals' = r.journals
          /\ last' = Resp("deleteJournal", r.status)
    /\ UNCHANGED <<backend, userVars, journalSeq, creator, putPending, moodVars, now>>

\* ------------------------------------------------- journal update in steps
\* The bodies of the updates the model keeps in flight: one that writes the
\* title, one that writes the mood, one that writes every field.
ConcurrentBodies ==
  {JournalBody({"title", "id"}, "T2", "", NotNum, 0),
   JournalBody({"mood"}, "", "", Num(6), 0),
   JournalBody({"title", "content", "mood"}, "T1", "C1", Num(3), 0)}

\* PUT /api/journals/:id up to its call of storage.updateJournal: the
\* existence and ownership checks on the journal read by getJournal and the
\* parse of the body.  The request is suspended at every await; n tells the
\* requests in flight apart.
PutCheck ==
  \E c \in Requesters(session), id \in JournalIds, body \in ConcurrentBodies :
    LET r == HPutJournal(backend, users, journals, session[c], id, body)
        parsed == insertJournalSchema_partial_parse(body)
        free == {n \in 1 .. MaxPuts : \A q \in putPending : q.n # n}
        request == [n |-> CHOOSE n \in free : \A m \in free : n <= m,
                    id |-> id, journal |-> parsed.data, pc |-> "checked",
                    existingJournal |-> NoJournal]
    IN /\ free # {}
       /\ IF r.status \in {401, 404, 403} \/ ~parsed.ok
          THEN /\ putPending' = putPending
               /\ last' = Resp("putCheck", r.status)
          ELSE /\ putPending' = putPending \cup {request}
               /\ last' = Resp("putCheck", 0)
       /\ UNCHANGED <<backend, userVars, journals, journalSeq, creator, moodVars, now>>

\* MemStorage.updateJournal up to its await: const existingJournal =
\* await this.getJournal(id), and the throw when there is none.
PutRead ==
  \E request \in putPending :
    /\ backend = "mem"
    /\ request.pc = "checked"
    /\ LET existingJournal == getJournal(journals, request.id)
       IN IF existingJournal = NoJournal
          THEN /\ putPending' = putPending \ {request}
               /\ last' = Resp("putRead", 400)
          ELSE /\ putPending' = (putPending \ {request}) \cup
                                  {[request EXCEPT !.pc = "read",
                                      !.existingJournal = existingJournal]}
               /\ last' = Resp("putRead", 0)
    /\ UNCHANGED <<backend, userVars, journals, journalSeq, creator, moodVars, now>>

\* The write of storage.updateJournal and the response: MemStorage sets the
\* merge of the journal it read and the body; DatabaseStorage runs one
\* UPDATE ... SET ... WHERE id.
PutWrite ==
  \E request \in putPending :
    /\ IF backend = "mem"
       THEN /\ request.pc = "read"
            /\ journals' = MapSet(journals, request.id,
                                  MergeJournal(request.existingJournal,
                                               request.journal))
            /\ last' = Resp("putWrite", 200)
       ELSE /\ request.pc = "checked"
            /\ LET r == updateJournal(backend, users, journals, request.id,
                                      request.journal)
               IN /\ journals' = r.journals
                  /\ last' = Resp("putWrite", IF r.ok THEN 200 ELSE 400)
    /\ putPending' = putPending \ {request}
    /\ UNCHANGED <<backend, userVars, journalSeq, creator, moodVars, now>>

\* ------------------------------------------------------------------ moods
\* shared/schema.ts moods table.  note "" stands for null.
NoMood == [id |-> 0, userId |-> 0, rating |-> 0, note |-> "", createdAt |-> 0]

\* Request bodies of POST /api/moods.
MoodBody(h, r, n, u) ==
  [has |-> h,
   rating |-> IF "rating" \in h THEN r ELSE NotNum,
   note |-> IF "note" \in h THEN n ELSE "",
   userId |-> IF "userId" \in h THEN u ELSE 0]

MoodBodies ==
  {MoodBody({"rating"}, Num(3), "", 0),
   MoodBody({"rating", "note", "userId"}, Num(6), "N1", 1),
   MoodBody({"rating"}, NotNum, "", 0),
   MoodBody({"note"}, NotNum, "N1", 0)}

\* insertMoodSchema.parse(obj): userId and rating are required numbers, note
\* is an optional string.
insertMoodSchema_parse(obj) ==
  IF {"userId", "rating"} \subseteq obj.has /\ obj.rating.num
  THEN [ok |-> TRUE,
        data |-> [userId |-> obj.userId, rating |-> obj.rating.v, note |-> obj.note]]
  ELSE [ok |-> FALSE, data |-> [userId |-> 0, rating |-> 0, note |-> ""]]

\* A createMood that stores every mood of a user under the id of the user.
createMood_perUser(b, us, ms, seq, t, mood) ==
  LET newMood == [id |-> mood.userId, userId |-> mood.userId, rating |-> mood.rating,
                  note |-> mood.note, createdAt |-> t]
  IN [ok |-> TRUE, moods |-> MapSet(ms, newMood.id, newMood), moodSeq |-> seq + 1,
      mood |-> newMood]

\* storage.createMood(mood); mood.note || null
createMood(b, us, ms, seq, t, mood) ==
  LET newMood == [id |-> seq, userId |-> mood.userId, rating |-> mood.rating,
                  note |-> mood.note, createdAt |-> t]
  IN IF UserRefOk(b, us, mood.userId)
     THEN [ok |-> TRUE, moods |-> MapSet(ms, seq, newMood), moodSeq |-> seq + 1,
           mood |-> newMood]
     ELSE [ok |-> FALSE, moods |-> ms, moodSeq |-> seq + 1, mood |-> NoMood]

\* getMoodsByUserId sorted oldest first.
getMoodsByUserId_ascending(ms, userId) ==
  LET Mine(m) == m.userId = userId
  IN SortByCreatedAt(SelectSeq(MapValues(ms), Mine), FALSE)

\* storage.getMoodsByUserId(userId)
getMoodsByUserId(ms, userId) ==
  LET Mine(m) == m.userId = userId
  IN SortByCreatedAt(SelectSeq(MapValues(ms), Mine), TRUE)

\* getMoodsByUserIdInRange with the end of the interval excluded.
getMoodsByUserIdInRange_endExclusive(ms, userId, startDate, endDate) ==
  LET InRange(mood) == /\ mood.userId = userId
                       /\ mood.createdAt >= startDate
                       /\ mood.createdAt < endDate
  IN SortByCreatedAt(SelectSeq(MapValues(ms), InRange), FALSE)

\* storage.getMoodsByUserIdInRange(userId, startDate, endDate)
getMoodsByUserIdInRange(ms, userId, startDate, endDate) ==
  LET InRange(mood) == /\ mood.userId = userId
                       /\ mood.createdAt >= startDate
                       /\ mood.createdAt <= endDate
  IN SortByCreatedAt(SelectSeq(MapValues(ms), InRange), FALSE)

\* A query parameter: absent, a string that is no date, or the ISO string of
\* an instant.
NoParam == [s |-> "absent", t |-> 0]
BadDate == [s |-> "text", t |-> 0]
IsoDate(t) == [s |-> "iso", t |-> t]
DateParams == {NoParam, BadDate} \cup {IsoDate(t) : t \in 0 .. MaxClock}

\* new Date(string).getTime(): the instant, or NaN
NaN == -1
NewDate(q) == IF q.s = "iso" THEN q.t ELSE NaN
\* A validity test that accepts every Date.
isNaN_never(x) == FALSE

isNaN(x) == x = NaN

\* GET /api/moods
HListMoods(ms, p) ==
  IF ~isAuthenticated(p) THEN [status |-> 401, body |-> <<>>]
  ELSE [status |-> 200, body |-> getMoodsByUserId(ms, p.id)]

\* GET /api/moods/range
HMoodsRange(ms, p, startDate, endDate) ==
  IF ~isAuthenticated(p) THEN [status |-> 401, body |-> <<>>]
  ELSE IF startDate = NoParam \/ endDate = NoParam
  THEN [status |-> 400, body |-> <<>>]
  ELSE LET start == NewDate(startDate)
           end == NewDate(endDate)
       IN IF isNaN(start) \/ isNaN(end) THEN [status |-> 400, body |-> <<>>]
          ELSE [status |-> 200,
                body |-> getMoodsByUserIdInRange(ms, p.id, start, end)]

\* POST /api/moods with the spread reversed: { userId, ...req.body }.
HPostMood_bodyUserId(b, us, ms, seq, t, p, body) ==
  LET same == [status |-> 401, body |-> NoMood, moods |-> ms, moodSeq |-> seq]
  IN IF ~isAuthenticated(p) THEN same
     ELSE LET parsed == insertMoodSchema_parse(
                          IF "userId" \in body.has THEN body
                          ELSE [body EXCEPT !.has = @ \cup {"userId"}, !.userId = p.id])
          IN IF ~parsed.ok THEN [same EXCEPT !.status = 400]
             ELSE LET r == createMood(b, us, ms, seq, t, parsed.data)
                  IN IF ~r.ok THEN [same EXCEPT !.status = 400, !.moodSeq = r.moodSeq]
                     ELSE [status |-> 201, body |-> r.mood, moods |-> r.moods,
                           moodSeq |-> r.moodSeq]

\* POST /api/moods
HPostMood(b, us, ms, seq, t, p, body) ==
  LET same == [status |-> 401, body |-> NoMood, moods |-> ms, moodSeq |-> seq]
  IN IF ~isAuthenticated(p) THEN same
     ELSE LET parsed == insertMoodSchema_parse(
                          [body EXCEPT !.has = @ \cup {"userId"}, !.userId = p.id])
          IN IF ~parsed.ok THEN [same EXCEPT !.status = 400]
             ELSE LET r == createMood(b, us, ms, seq, t, parsed.data)
                  IN IF ~r.ok THEN [same EXCEPT !.status = 400, !.moodSeq = r.moodSeq]
                     ELSE [status |-> 201, body |-> r.mood, moods |-> r.moods,
                           moodSeq |-> r.moodSeq]

ListMoods ==
  \E c \in Requesters(session) :
    /\ last' = Resp("listMoods", HListMoods(moods, session[c]).status)
    /\ UNCHANGED <<backend, userVars, journalVars, moodVars, now>>

MoodsRange ==
  \E c \in Requesters(session), startDate \in DateParams, endDate \in DateParams :
    /\ last' = Resp("moodsRange",
                    HMoodsRange(moods, session[c], startDate, endDate).status)
    /\ UNCHANGED <<backend, userVars, journalVars, moodVars, now>>

PostMood ==
  \E c \in Requesters(session), body \in MoodBodies :
    /\ moodSeq <= MaxMoods
    /\ LET r == HPostMood(backend, users, moods, moodSeq, now, session[c], body)
       IN /\ moods' = r.moods
          /\ moodSeq' = r.moodSeq
          /\ last' = Resp("postMood", r.status)
    /\ UNCHANGED <<backend, userVars, journalVars, now>>

\* ------------------------------------------------------------ mindfulness
\* MemStorage.initMindfulnessSessions: three free sessions, then two premium.
mindfulnessSessions ==
  <<[id |-> 1, title |-> "Morning Meditation", isPremium |-> FALSE],
    [id |-> 2, title |-> "Stress Relief", isPremium |-> FALSE],
    [id |-> 3, title |-> "Evening Wind Down", isPremium |-> FALSE],
    [id |-> 4, title |-> "Deep Focus", isPremium |-> TRUE],
    [id |-> 5, title |-> "Anxiety Release", isPremium |-> TRUE]>>

NoSession == [id |-> 0, title |-> "", isPremium |-> FALSE]

\* The session ids requests name: the catalog's and one on either side.
SessionIds == 0 .. (Len(mindfulnessSessions) + 1)

\* A catalog query that ignores the entitlement of the caller.
getMindfulnessSessions_all(includePremium) == mindfulnessSessions

\* storage.getMindfulnessSessions(includePremium)
getMindfulnessSessions(includePremium) ==
  LET Free(m) == ~m.isPremium
  IN IF includePremium THEN mindfulnessSessions
     ELSE SelectSeq(mindfulnessSessions, Free)

\* storage.getMindfulnessSession(id)
getMindfulnessSession(id) ==
  IF \E k \in 1 .. Len(mindfulnessSessions) : mindfulnessSessions[k].id = id
  THEN mindfulnessSessions[CHOOSE k \in 1 .. Len(mindfulnessSessions) :
                             mindfulnessSessions[k].id = id]
  ELSE NoSession

\* GET /api/mindfulness
HListMindfulness(p) ==
  IF ~isAuthenticated(p) THEN [status |-> 401, body |-> <<>>]
  ELSE [status |-> 200, body |-> getMindfulnessSessions(p.isPremium)]

\* GET /api/mindfulness/:id
HGetMindfulness(p, id) ==
  IF ~isAuthenticated(p) THEN [status |-> 401, body |-> NoSession]
  ELSE LET m == getMindfulnessSession(id)
       IN IF m = NoSession THEN [status |-> 404, body |-> NoSession]
          ELSE IF m.isPremium /\ ~p.isPremium THEN [status |-> 403, body |-> NoSession]
          ELSE [status |-> 200, body |-> m]

ListMindfulness ==
  \E c \in Requesters(session) :
    /\ last' = Resp("listMindfulness", HListMindfulness(session[c]).status)
    /\ UNCHANGED <<backend, userVars, journalVars, moodVars, now>>

GetMindfulness ==
  \E c \in Requesters(session), id \in SessionIds :
    /\ last' = Resp("getMindfulness", HGetMindfulness(session[c], id).status)
    /\ UNCHANGED <<backend, userVars, journalVars, moodVars, now>>

\* ---------------------------------------------------------------- premium
\* An update that flips the stored flag instead of setting it.
updateUserPremium_toggle(us, id, isPremium) ==
  IF id \notin DOMAIN us THEN [ok |-> FALSE, users |-> us, user |-> NoUser]
  ELSE LET updatedUser == [us[id] EXCEPT !.isPremium = ~@]
       IN [ok |-> TRUE, users |-> MapSet(us, id, updatedUser), user |-> updatedUser]

\* storage.updateUserPremium(id, isPremium): throws when the user is missing.
updateUserPremium(us, id, isPremium) ==
  IF id \notin DOMAIN us THEN [ok |-> FALSE, users |-> us, user |-> NoUser]
  ELSE LET updatedUser == [us[id] EXCEPT !.isPremium = isPremium]
       IN [ok |-> TRUE, users |-> MapSet(us, id, updatedUser), user |-> updatedUser]

\* storage.updateUserStripeInfo(id, stripeInfo)
updateUserStripeInfo(us, id, subscriptionId) ==
  IF id \notin DOMAIN us THEN [ok |-> FALSE, users |-> us, user |-> NoUser]
  ELSE LET updatedUser == [us[id] EXCEPT !.stripeSubscriptionId = subscriptionId,
                                         !.isPremium = TRUE]
       IN [ok |-> TRUE, users |-> MapSet(us, id, updatedUser), user |-> updatedUser]

\* POST /api/premium/activate, and POST /api/create-subscription as of the
\* revision that no longer calls the billing processor: mark the user
\* premium, then req.login(updatedUser).
HActivate(us, p) ==
  IF ~isAuthenticated(p) THEN [status |-> 401, users |-> us, principal |-> p]
  ELSE LET r == updateUserPremium(us, p.id, TRUE)
       IN IF ~r.ok THEN [status |-> 400, users |-> us, principal |-> p]
          ELSE [status |-> 200, users |-> r.users, principal |-> r.user]

\* POST /api/create-subscription as of the revisions that call the billing
\* processor: stripeOk tells whether its calls succeed, newSub is the id of
\* the subscription it creates.  The session keeps its principal.
HCreateSubscriptionStripe(us, p, stripeOk, newSub) ==
  LET same == [status |-> 401, users |-> us, principal |-> p, created |-> FALSE]
  IN IF ~isAuthenticated(p) THEN same
     ELSE IF p.stripeSubscriptionId # 0
     THEN [same EXCEPT !.status = IF stripeOk THEN 200 ELSE 400]
     ELSE IF p.email = "" THEN [same EXCEPT !.status = 400]
     ELSE IF ~stripeOk THEN [same EXCEPT !.status = 400]
     ELSE LET r == updateUserStripeInfo(us, p.id, newSub)
          IN IF ~r.ok THEN [same EXCEPT !.status = 400, !.created = TRUE]
             ELSE [status |-> 200, users |-> r.users, principal |-> p,
                   created |-> TRUE]

Activate ==
  \E c \in Requesters(session) :
    /\ LET r == HActivate(users, session[c])
       IN /\ users' = r.users
          /\ session' = [session EXCEPT ![c] = r.principal]
          /\ last' = Resp("activate", r.status)
    /\ UNCHANGED <<backend, userSeq, subSeq, pendingReg, journalVars, moodVars, now>>

CreateSubscription ==
  \E c \in Requesters(session) :
    /\ LET r == HActivate(users, session[c])
       IN /\ users' = r.users
          /\ session' = [session EXCEPT ![c] = r.principal]
          /\ last' = Resp("createSubscription", r.status)
    /\ UNCHANGED <<backend, userSeq, subSeq, pendingReg, journalVars, moodVars, now>>

CreateSubscriptionStripe ==
  \E c \in Requesters(session), stripeOk \in BOOLEAN :
    /\ subSeq <= MaxSubs
    /\ LET r == HCreateSubscriptionStripe(users, session[c], stripeOk, subSeq)
       IN /\ users' = r.users
          /\ session' = [session EXCEPT ![c] = r.principal]
          /\ subSeq' = IF r.created THEN subSeq + 1 ELSE subSeq
          /\ last' = Resp("createSubscriptionStripe", r.status)
    /\ UNCHANGED <<backend, userSeq, pendingReg, journalVars, moodVars, now>>

\* ---------------------------------------------------------------- profile
\* storage.getUserByEmail(email): MemStorage ignores letter case,
\* DatabaseStorage compares with eq() and finds nobody for an empty email.
getUserByEmail(b, us, email) ==
  LET Same(u) == IF b = "mem" THEN toLowerCase(u.email) = toLowerCase(email)
                 ELSE email # "" /\ u.email = email
  IN getUser(us, FindId({i \in DOMAIN us : Same(us[i])}))

\* Request bodies of PUT /api/user/profile.
ProfileBody(h, n, e) ==
  [has |-> h,
   username |-> IF "username" \in h THEN n ELSE "",
   email |-> IF "email" \in h THEN e ELSE ""]

ProfileBodies ==
  {ProfileBody({"username"}, "Amy", ""),
   ProfileBody({"username"}, "ab", ""),
   ProfileBody({"email"}, "", "bob@x.io"),
   ProfileBody({"email"}, "", "nomail"),
   ProfileBody({}, "", "")}

\* z.string().email() on the model's strings.
IsEmail(e) == e \in {"amy@x.io", "bob@x.io", "new@x.io"}

\* userProfileSchema.parse(body): username of 3 to 50 characters, email an
\* e-mail address, both optional.
userProfileSchema_parse(body) ==
  /\ "username" \in body.has => Len(body.username) >= 3 /\ Len(body.username) <= 50
  /\ "email" \in body.has => IsEmail(body.email)

\* storage.updateUserProfile(id, userData)
updateUserProfile(b, us, id, userData) ==
  LET failed == [ok |-> FALSE, users |-> us, user |-> NoUser]
      user == getUser(us, id)
      byName == getUserByUsername(b, us, userData.username)
      byEmail == getUserByEmail(b, us, userData.email)
      nameTaken ==
        /\ userData.username # ""
        /\ IF b = "mem" THEN userData.username # user.username /\ byName # NoUser
           ELSE byName # NoUser /\ byName.id # id
      emailTaken ==
        /\ userData.email # ""
        /\ IF b = "mem" THEN userData.email # user.email /\ byEmail # NoUser
           ELSE byEmail # NoUser /\ byEmail.id # id
      updatedUser ==
        [user EXCEPT
           !.username = IF userData.username # "" THEN userData.username ELSE @,
           !.email = IF userData.email # "" THEN userData.email ELSE @]
  IN IF b = "mem" /\ user = NoUser THEN failed
     ELSE IF nameTaken \/ emailTaken THEN failed
     ELSE IF user = NoUser THEN failed
     ELSE [ok |-> TRUE, users |-> MapSet(us, id, updatedUser), user |-> updatedUser]

\* PUT /api/user/profile
HUpdateProfile(b, us, p, body) ==
  LET same == [status |-> 401, users |-> us, principal |-> p]
  IN IF ~isAuthenticated(p) THEN same
     ELSE IF ~userProfileSchema_parse(body) THEN [same EXCEPT !.status = 400]
     ELSE IF body.username = "" /\ body.email = "" THEN [same EXCEPT !.status = 400]
     ELSE LET r == updateUserProfile(b, us, p.id, body)
          IN IF ~r.ok THEN [same EXCEPT !.status = 400]
             ELSE [status |-> 200, users |-> r.users, principal |-> r.user]

UpdateProfile ==
  \E c \in Requesters(session), body \in ProfileBodies :
    /\ LET r == HUpdateProfile(backend, users, session[c], body)
       IN /\ users' = r.users
          /\ session' = [session EXCEPT ![c] = r.principal]
          /\ last' = Resp("updateProfile", r.status)
    /\ UNCHANGED <<backend, userSeq, subSeq, pendingReg, journalVars, moodVars, now>>

\* --------------------------------------------------------------- password
\* Request bodies of PUT /api/user/password; "" stands for a missing key.
PasswordBody(c, n, f) == [currentPassword |-> c, newPassword |-> n,
                          confirmPassword |-> f]

PasswordBodies ==
  {PasswordBody("secret1", "secret2", "secret2"),
   PasswordBody("secret2", "secret1", "secret1"),
   PasswordBody("secret1", "secret2", "secret1"),
   PasswordBody("secret2", "secret2", "secret1"),
   PasswordBody("secret1", "short", "short"),
   PasswordBody("", "secret2", "secret2")}

\* passwordUpdateSchema.parse(body): three strings of at least 6 characters,
\* the new password equal to its confirmation.
passwordUpdateSchema_parse(body) ==
  /\ Len(body.currentPassword) >= 6
  /\ Len(body.newPassword) >= 6
  /\ Len(body.confirmPassword) >= 6
  /\ body.newPassword = body.confirmPassword

\* An updateUserPassword that does not verify the old password.
updateUserPassword_unverified(us, id, oldPassword, newPassword) ==
  LET user == getUser(us, id)
      updatedUser == [user EXCEPT !.password = hashPassword(newPassword)]
  IN IF user = NoUser THEN [ok |-> FALSE, users |-> us, user |-> NoUser]
     ELSE [ok |-> TRUE, users |-> MapSet(us, id, updatedUser), user |-> updatedUser]

\* storage.updateUserPassword(id, oldPassword, newPassword)
updateUserPassword(us, id, oldPassword, newPassword) ==
  LET failed == [ok |-> FALSE, users |-> us, user |-> NoUser]
      user == getUser(us, id)
      updatedUser == [user EXCEPT !.password = hashPassword(newPassword)]
  IN IF user = NoUser THEN failed
     ELSE IF ~comparePasswords(oldPassword, user.password) THEN failed
     ELSE [ok |-> TRUE, users |-> MapSet(us, id, updatedUser), user |-> updatedUser]

\* PUT /api/user/password
HUpdatePassword(us, p, body) ==
  LET same == [status |-> 401, users |-> us, principal |-> p]
  IN IF ~isAuthenticated(p) THEN same
     ELSE IF ~passwordUpdateSchema_parse(body) THEN [same EXCEPT !.status = 400]
     ELSE LET r == updateUserPassword(us, p.id, body.currentPassword,
                                      body.newPassword)
          IN IF ~r.ok THEN [same EXCEPT !.status = 400]
             ELSE [status |-> 200, users |-> r.users, principal |-> r.user]

UpdatePassword ==
  \E c \in Requesters(session), body \in PasswordBodies :
    /\ LET r == HUpdatePassword(users, session[c], body)
       IN /\ users' = r.users
          /\ session' = [session EXCEPT ![c] = r.principal]
          /\ last' = Resp("updatePassword", r.status)
    /\ UNCHANGED <<backend, userSeq, subSeq, pendingReg, journalVars, moodVars, now>>

\* ------------------------------------------------- registration in steps
\* The requests of POST /api/register that are past their username check.
PendingCount == pendingReg[CHOOSE b \in RegBodies : b.username = "amy"]
                + pendingReg[CHOOSE b \in RegBodies : b.username = "bob"]

\* POST /api/register up to its first store operation, the username check;
\* other requests run before it goes on.
RegisterCheck ==
  \E body \in RegBodies :
    /\ PendingCount < MaxPending
    /\ IF getUserByUsername(backend, users, body.username) # NoUser
       THEN /\ pendingReg' = pendingReg
            /\ last' = Resp("registerCheck", 400)
       ELSE /\ pendingReg' = [pendingReg EXCEPT ![body] = @ + 1]
            /\ last' = Resp("registerCheck", 0)
    /\ UNCHANGED <<backend, users, userSeq, session, subSeq, journalVars, moodVars,
                   now>>

\* POST /api/register from its second store operation on: createUser.
RegisterInsert ==
  \E body \in RegBodies :
    /\ pendingReg[body] > 0
    /\ userSeq <= MaxUsers
    /\ LET r == createUser(backend, users, userSeq, InsertUserOf(body))
       IN /\ users' = r.users
          /\ userSeq' = r.userSeq
          /\ last' = Resp("registerInsert", IF r.ok THEN 201 ELSE 400)
    /\ pendingReg' = [pendingReg EXCEPT ![body] = @ - 1]
    /\ UNCHANGED <<backend, session, subSeq, journalVars, moodVars, now>>

\* ---------------------------------------------------------------- webhook
\* The safety check of getAllUsers: if (userId > 1000) break
ScanLimit == 1000

\* A scan whose safety check stops one id early.
RECURSIVE ScanUsers_stopEarly(_, _, _, _, _)
ScanUsers_stopEarly(us, userId, found, limit, failing) ==
  LET user == getUser(us, userId)
  IN IF userId \in failing THEN found
     ELSE IF user = NoUser THEN found
     ELSE IF userId + 1 >= limit THEN Append(found, user)
     ELSE ScanUsers_stopEarly(us, userId + 1, Append(found, user), limit, failing)

\* The loop of getAllUsers(): getUser(1), getUser(2), ... until the lookup of
\* an id throws (the ids in failing), an id has no user, or the safety check
\* against limit stops the loop after a user was found.
RECURSIVE ScanUsers(_, _, _, _, _)
ScanUsers(us, userId, found, limit, failing) ==
  LET user == getUser(us, userId)
  IN IF userId \in failing THEN found
     ELSE IF user = NoUser THEN found
     ELSE IF userId + 1 > limit THEN Append(found, user)
     ELSE ScanUsers(us, userId + 1, Append(found, user), limit, failing)

\* getAllUsers() over a store whose lookups do not throw.
getAllUsers(us) == ScanUsers(us, 1, <<>>, ScanLimit, {})

\* A find that falls back on the first user when no subscription id matches.
FindBySubscription_first(allUsers, subscriptionId) ==
  LET hits == {k \in 1 .. Len(allUsers) :
                 allUsers[k].stripeSubscriptionId = subscriptionId}
  IN IF allUsers = <<>> THEN NoUser
     ELSE IF hits = {} THEN allUsers[1]
     ELSE allUsers[CHOOSE k \in hits : \A h \in hits : k <= h]

\* allUsers.find(u => u.stripeSubscriptionId === subscription.id)
FindBySubscription(allUsers, subscriptionId) ==
  LET hits == {k \in 1 .. Len(allUsers) :
                 allUsers[k].stripeSubscriptionId = subscriptionId}
  IN IF hits = {} THEN NoUser
     ELSE allUsers[CHOOSE k \in hits : \A h \in hits : k <= h]

\* The events the billing processor sends, and a body that is no event.
EventTypes == {"customer.subscription.created", "customer.subscription.updated",
               "customer.subscription.deleted"}
Events == {[type |-> t, sub |-> i, status |-> st] :
             t \in EventTypes, i \in 1 .. (MaxSubs + 1), st \in {"active", "past_due"}}
NoEvent == [type |-> "", sub |-> 0, status |-> ""]

\* A switch that does not test subscription.status.
WebhookSwitch_anyStatus(us, event) ==
  LET user == FindBySubscription(getAllUsers(us), event.sub)
  IN IF event.type = "customer.subscription.updated"
     THEN IF user # NoUser THEN updateUserPremium(us, user.id, TRUE).users ELSE us
     ELSE IF event.type = "customer.subscription.deleted"
     THEN IF user # NoUser THEN updateUserPremium(us, user.id, FALSE).users ELSE us
     ELSE us

\* The switch of POST /api/webhook on the event type.
WebhookSwitch(us, event) ==
  LET user == FindBySubscription(getAllUsers(us), event.sub)
  IN IF event.type = "customer.subscription.updated"
     THEN IF event.status = "active" /\ user # NoUser
          THEN updateUserPremium(us, user.id, TRUE).users ELSE us
     ELSE IF event.type = "customer.subscription.deleted"
     THEN IF user # NoUser THEN updateUserPremium(us, user.id, FALSE).users ELSE us
     ELSE us

\* POST /api/webhook as of the revisions that skip signature verification.
HWebhook(us, event) ==
  IF event = NoEvent THEN [status |-> 400, users |-> us]
  ELSE [status |-> 200, users |-> WebhookSwitch(us, event)]

\* Array.from(storage.users?.values() || []): the private Map of MemStorage;
\* DatabaseStorage has no such field.
StorageUsers(b, us) == IF b = "mem" THEN MapValues(us) ELSE <<>>

\* POST /api/webhook as of the revision that verifies the signature:
\* secret tells whether STRIPE_WEBHOOK_SECRET is set, sigOk whether
\* constructEvent accepts the body and its signature.
HWebhookSigned(b, us, secret, sigOk, event) ==
  IF ~secret THEN [status |-> 500, users |-> us]
  ELSE IF ~sigOk \/ event = NoEvent THEN [status |-> 400, users |-> us]
  ELSE LET user == FindBySubscription(StorageUsers(b, us), event.sub)
       IN IF /\ event.type = "customer.subscription.updated"
             /\ event.status = "active"
             /\ user # NoUser
          THEN [status |-> 200, users |-> updateUserPremium(us, user.id, TRUE).users]
          ELSE [status |-> 200, users |-> us]

Webhook ==
  \E event \in Events \cup {NoEvent} :
    /\ LET r == HWebhook(users, event)
       IN /\ users' = r.users
          /\ last' = Resp("webhook", r.status)
    /\ UNCHANGED <<backend, userSeq, session, subSeq, pendingReg, journalVars,
                   moodVars, now>>

WebhookSigned ==
  \E event \in Events \cup {NoEvent}, secret \in BOOLEAN, sigOk \in BOOLEAN :
    /\ LET r == HWebhookSigned(backend, users, secret, sigOk, event)
       IN /\ users' = r.users
          /\ last' = Resp("webhookSigned", r.status)
    /\ UNCHANGED <<backend, userSeq, session, subSeq, pendingReg, journalVars,
                   moodVars, now>>

\* ----------------------------------------------------- route registration
\* The routes of registerRoutes; the two registered inside
\* if (stripeEnabled && stripe) { ... }.
Routes == {"listJournals", "getJournal", "postJournal", "putJournal",
           "deleteJournal", "listMoods", "moodsRange", "postMood",
           "updateProfile", "updatePassword", "listMindfulness",
           "getMindfulness", "activate", "createSubscription", "webhook"}
BillingRoutes == {"createSubscription", "webhook"}

\* A registerRoutes that registers the activation route with the billing
\* routes.
registerRoutes_activateBilled(stripeEnabled) ==
  IF stripeEnabled THEN Routes ELSE Routes \ (BillingRoutes \cup {"activate"})

\* registerRoutes(app): the routes registered under a billing configuration.
registerRoutes(stripeEnabled) ==
  IF stripeEnabled THEN Routes ELSE Routes \ BillingRoutes

\* The answer of the server to a request for a route: the answer of its
\* handler, or 404 with nothing else when no handler is registered.
Serve(stripeEnabled, route, answer) ==
  IF route \in registerRoutes(stripeEnabled) THEN answer ELSE [status |-> 404]

\* ---------------------------------------------------------- specification
\* The state after construction: empty stores, counters at 1, no session.
Init ==
  /\ backend \in {"mem", "db"}
  /\ users = EmptyMap
  /\ userSeq = 1
  /\ session = [c \in Clients |-> NoUser]
  /\ subSeq = 1
  /\ pendingReg = [body \in RegBodies |-> 0]
  /\ journals = EmptyMap
  /\ journalSeq = 1
  /\ creator = EmptyMap
  /\ putPending = {}
  /\ moods = EmptyMap
  /\ moodSeq = 1
  /\ now = 0
  /\ last = Resp("init", 0)

NextJournal ==
  \/ Register \/ Login \/ Logout
  \/ ListJournals \/ GetJournal \/ PostJournal \/ PutJournal \/ DeleteJournal

\* The account, session and journal endpoints.
SpecJournal == Init /\ [][NextJournal]_vars

NextMood ==
  \/ Register \/ Login \/ Tick
  \/ ListMoods \/ MoodsRange \/ PostMood

\* The account, session and mood endpoints, with time passing.
SpecMood == Init /\ [][NextMood]_vars

NextRating ==
  \/ Register \/ Login
  \/ PostJournal \/ PutJournal \/ PostMood

\* The endpoints that store a mood value.
SpecRating == Init /\ [][NextRating]_vars

NextPremium ==
  \/ Register \/ Login \/ Logout
  \/ ListMindfulness \/ GetMindfulness
  \/ Activate \/ CreateSubscription \/ CreateSubscriptionStripe
  \/ Webhook \/ WebhookSigned

\* The account, session, mindfulness, premium and billing endpoints.
SpecPremium == Init /\ [][NextPremium]_vars

NextBilling ==
  \/ RegisterCheck \/ RegisterInsert \/ Login
  \/ ListMindfulness \/ GetMindfulness
  \/ CreateSubscriptionStripe
  \/ Webhook

\* The revision whose POST /api/create-subscription calls the billing
\* processor and whose webhook scans getAllUsers, with registration in its
\* two steps.
SpecBilling == Init /\ [][NextBilling]_vars

NextProfile ==
  \/ Register \/ Login
  \/ UpdateProfile
  \/ Activate \/ CreateSubscription \/ CreateSubscriptionStripe

\* The handlers that change a user's name, e-mail address or premium flag.
SpecProfile == Init /\ [][NextProfile]_vars

NextScan ==
  \/ RegisterCheck \/ RegisterInsert \/ Login
  \/ Webhook

\* The webhook that scans getAllUsers over stores whose ids have gaps:
\* registration in its two steps, login and the webhook.
SpecScan == Init /\ [][NextScan]_vars

NextConcurrent ==
  \/ Register \/ Login
  \/ PostJournal \/ DeleteJournal
  \/ PutCheck \/ PutRead \/ PutWrite

\* Journal updates handled concurrently: every await of PUT
\* /api/journals/:id is a point where other requests run.
SpecConcurrent == Init /\ [][NextConcurrent]_vars

NextList ==
  \/ Register \/ Login \/ Tick
  \/ PostJournal \/ PutJournal \/ DeleteJournal \/ ListJournals
  \/ PostMood \/ ListMoods

\* The endpoints that create, change, delete and list journals and moods,
\* with time passing.
SpecList == Init /\ [][NextList]_vars

NextRoundTrip ==
  \/ Register \/ Login \/ Tick
  \/ PostJournal \/ PutJournal

\* Creating and updating journals, with time passing.
SpecRoundTrip == Init /\ [][NextRoundTrip]_vars

NextIds ==
  \/ Register \/ Login
  \/ PostJournal \/ DeleteJournal \/ PostMood

\* The operations that create users, journals and moods and delete journals.
SpecIds == Init /\ [][NextIds]_vars

NextAccount ==
  \/ Register \/ Login \/ Logout
  \/ UpdateProfile \/ UpdatePassword

\* The account endpoints: registration, sessions, profile and password.
SpecAccount == Init /\ [][NextAccount]_vars

\* ----------------------------------------------------------------- claims
\* C1: GET, PUT and DELETE on /journals/:id check authentication, then
\* existence, then ownership: without a principal the answer is 401 whatever
\* the id, for an id with no stored journal it is 404 whoever asks, for a
\* journal of another user it is 403; 403 is never the answer for a missing
\* journal and 404 never for a stored one.
C1_CheckOrder ==
  \A c \in Clients, id \in JournalIds, body \in JournalBodies :
    LET p == session[c]
        exists == id \in DOMAIN journals
        answers == {HGetJournal(journals, p, id).status,
                    HPutJournal(backend, users, journals, p, id, body).status,
                    HDeleteJournal(journals, p, id).status}
    IN /\ ~isAuthenticated(p) => answers = {401}
       /\ isAuthenticated(p) /\ ~exists => answers = {404}
       /\ isAuthenticated(p) /\ exists /\ journals[id].userId # p.id => answers = {403}
       /\ 403 \in answers => exists
       /\ 404 \in answers => ~exists

\* A DELETE by a logged-in user who does not own the stored journal has just
\* been refused, and another id names no journal.
C1_Witness ==
  /\ last = Resp("deleteJournal", 403)
  /\ \E c \in Clients, id \in DOMAIN journals :
       isAuthenticated(session[c]) /\ journals[id].userId # session[c].id
  /\ JournalIds \ DOMAIN journals # {}

\* C2: a journal is returned to, modified by and deleted by its creator
\* only: every 200 or 204 answer on a journal goes to the user whose POST
\* created it.
C2_OnlyCreator ==
  \A c \in Clients, id \in DOMAIN journals, body \in JournalBodies :
    LET p == session[c]
    IN \/ HGetJournal(journals, p, id).status = 200
       \/ HPutJournal(backend, users, journals, p, id, body).status = 200
       \/ HDeleteJournal(journals, p, id).status = 204
       => p.id = creator[id]

\* C3: an accepted PUT /journals/:id leaves the id and the userId of the
\* stored journal as they were, whatever the body carries.
C3_UpdateKeepsOwner ==
  \A c \in Clients, id \in DOMAIN journals, body \in JournalBodies :
    LET r == HPutJournal(backend, users, journals, session[c], id, body)
    IN r.status = 200 =>
         /\ r.journals[id].id = journals[id].id
         /\ r.journals[id].userId = journals[id].userId

\* C4: every stored Mood has a rating in 1..5 and every stored Journal a
\* mood in 1..5.
C4_RatingsInRange ==
  /\ \A i \in DOMAIN moods : moods[i].rating \in 1 .. 5
  /\ \A j \in DOMAIN journals : journals[j].mood \in 1 .. 5

\* C5: a principal who is not premium gets 200 and exactly the free sessions
\* of the catalog from GET /mindfulness, and from GET /mindfulness/:id 404
\* for an id outside the catalog, 403 for a premium session and 200 with the
\* session for a free one; a premium principal gets the whole catalog and
\* every session of it.
C5_Entitlement ==
  \A c \in Clients :
    LET p == session[c]
        list == HListMindfulness(p)
        catalog == {mindfulnessSessions[k] : k \in 1 .. Len(mindfulnessSessions)}
        allowed == {m \in catalog : m.isPremium => p.isPremium}
    IN isAuthenticated(p) =>
         /\ list.status = 200
         /\ {list.body[k] : k \in 1 .. Len(list.body)} = allowed
         /\ Len(list.body) = Cardinality(allowed)
         /\ \A id \in SessionIds :
              LET r == HGetMindfulness(p, id)
                  found == {m \in catalog : m.id = id}
              IN /\ found = {} => r.status = 404
                 /\ \A m \in found :
                      IF m \in allowed THEN r.status = 200 /\ r.body = m
                      ELSE r.status = 403

\* A premium session has just been refused to a logged-in user who is not
\* premium, while another logged-in user is premium.
C5_Witness ==
  /\ last = Resp("getMindfulness", 403)
  /\ \E c \in Clients : isAuthenticated(session[c]) /\ ~session[c].isPremium
  /\ \E c \in Clients : isAuthenticated(session[c]) /\ session[c].isPremium

\* C6: a premium session is delivered, in the list or by id, only to a user
\* whose stored isPremium is true when the request is made.
C6_PremiumOnlyToStoredPremium ==
  \A c \in Clients :
    LET p == session[c]
        list == HListMindfulness(p)
        delivered == {list.body[k] : k \in 1 .. Len(list.body)}
                     \cup {HGetMindfulness(p, id).body : id \in SessionIds}
    IN isAuthenticated(p) /\ (\E m \in delivered : m.isPremium)
         => getUser(users, p.id).isPremium

\* C7: POST /premium/activate twice in succession answers 200 both times and
\* the stored isPremium is true after each call; updateUserPremium(id, true)
\* on a premium user leaves the user as it was.
C7_ActivateIdempotent ==
  /\ \A c \in Clients :
       LET p == session[c]
           first == HActivate(users, p)
           second == HActivate(first.users, first.principal)
       IN isAuthenticated(p) =>
            /\ first.status = 200 /\ first.users[p.id].isPremium
            /\ second.status = 200 /\ second.users[p.id].isPremium
            /\ second.users = first.users
  /\ \A id \in DOMAIN users :
       LET after == updateUserPremium(users, id, TRUE).users
       IN /\ after[id].isPremium
          /\ \A f \in {"id", "username", "email", "stripeSubscriptionId"} :
               after[id][f] = users[id][f]
          /\ \A other \in DOMAIN users \ {id} : after[other] = users[other]
          /\ users[id].isPremium => after = users

\* An activation has just been answered 200 to a user who is now premium in
\* the store and in the session: the next activation is the second one.
C7_Witness ==
  /\ last = Resp("activate", 200)
  /\ \E c \in Clients :
       /\ isAuthenticated(session[c])
       /\ session[c].isPremium
       /\ users[session[c].id].isPremium

\* C8: when PUT /user/profile, POST /premium/activate or POST
\* /create-subscription answers with success after changing the user, the
\* principal of the session has the isPremium, username and email of the
\* stored user.
C8_SessionRefreshed ==
  \A c \in Clients :
    LET p == session[c]
        Fresh(r) == LET u == getUser(r.users, p.id)
                    IN /\ r.principal.isPremium = u.isPremium
                       /\ r.principal.username = u.username
                       /\ r.principal.email = u.email
        activate == HActivate(users, p)
        subscribe == HCreateSubscriptionStripe(users, p, TRUE, subSeq)
    IN isAuthenticated(p) =>
         /\ \A body \in ProfileBodies :
              LET r == HUpdateProfile(backend, users, p, body)
              IN r.status = 200 => Fresh(r)
         /\ activate.status = 200 => Fresh(activate)
         /\ subscribe.status = 200 /\ subscribe.users # users => Fresh(subscribe)

\* C9: when a stored user has the subscription id of the event, the webhook
\* sets that user's isPremium to true on customer.subscription.updated with
\* status active and to false on customer.subscription.deleted.
C9_EventResolved ==
  \A event \in Events, id \in DOMAIN users :
    LET after == HWebhook(users, event).users
    IN users[id].stripeSubscriptionId = event.sub =>
         /\ event.type = "customer.subscription.updated" /\ event.status = "active"
              => after[id].isPremium
         /\ event.type = "customer.subscription.deleted" => ~after[id].isPremium

\* C10: GET /moods/range with valid bounds returns exactly the principal's
\* moods with start <= createdAt <= end, each once, oldest first.
C10_RangeExact ==
  \A c \in Clients, s \in 0 .. MaxClock, e \in 0 .. MaxClock :
    isAuthenticated(session[c]) =>
      LET r == HMoodsRange(moods, session[c], IsoDate(s), IsoDate(e))
          wanted == {i \in DOMAIN moods : /\ moods[i].userId = session[c].id
                                          /\ s <= moods[i].createdAt
                                          /\ moods[i].createdAt <= e}
      IN /\ r.status = 200
         /\ Len(r.body) = Cardinality(wanted)
         /\ {r.body[k] : k \in 1 .. Len(r.body)} = {moods[i] : i \in wanted}
         /\ \A k \in 1 .. Len(r.body) - 1 :
              r.body[k].createdAt <= r.body[k + 1].createdAt

\* A range request was just answered 200, and some user holds two moods of
\* different instants, a range that returns both (older first) and a range
\* that leaves one of them out.
C10_Witness ==
  /\ last = Resp("moodsRange", 200)
  /\ \E c \in Clients :
       /\ isAuthenticated(session[c])
       /\ LET all == HMoodsRange(moods, session[c], IsoDate(0), IsoDate(MaxClock)).body
              late == HMoodsRange(moods, session[c], IsoDate(MaxClock),
                                  IsoDate(MaxClock)).body
          IN /\ Len(all) = 2
             /\ all[1].createdAt < all[2].createdAt
             /\ Len(late) = 1

\* C11: GET /journals and GET /moods answer an authenticated principal with
\* exactly the stored records whose userId is the principal's id, each once,
\* newest first; so they do in the state reached and after one more create
\* by the principal.
C11_ListByOwner ==
  \A c \in Clients :
    LET p == session[c]
        Exact(list, store) ==
          LET own == {store[i] : i \in {k \in DOMAIN store : store[k].userId = p.id}}
          IN /\ list.status = 200
             /\ {list.body[k] : k \in 1 .. Len(list.body)} = own
             /\ Len(list.body) = Cardinality(own)
             /\ \A k \in 1 .. Len(list.body) - 1 :
                  list.body[k].createdAt >= list.body[k + 1].createdAt
    IN isAuthenticated(p) =>
         /\ Exact(HListJournals(journals, p), journals)
         /\ Exact(HListMoods(moods, p), moods)
         /\ \A body \in JournalBodies :
              LET r == HPostJournal(backend, users, journals, journalSeq, now, p, body)
              IN Exact(HListJournals(r.journals, p), r.journals)
         /\ \A body \in MoodBodies :
              LET r == HPostMood(backend, users, moods, moodSeq, now, p, body)
              IN Exact(HListMoods(r.moods, p), r.moods)

\* A list has just been answered 200; a logged-in user holds two moods of
\* different instants, listed newest first, and a journal older than the
\* clock, while another logged-in user gets two empty lists.
C11_Witness ==
  /\ last.op \in {"listJournals", "listMoods"} /\ last.status = 200
  /\ \E c \in Clients :
       /\ isAuthenticated(session[c])
       /\ LET body == HListMoods(moods, session[c]).body
          IN Len(body) = 2 /\ body[1].createdAt > body[2].createdAt
       /\ \E j \in DOMAIN journals :
            journals[j].userId = session[c].id /\ journals[j].createdAt < now
       /\ \E d \in Clients \ {c} :
            /\ isAuthenticated(session[d])
            /\ HListMoods(moods, session[d]).body = <<>>
            /\ HListJournals(journals, session[d]).body = <<>>

\* C12: a POST /journals with title, content and a numeric mood by user U
\* answers 201, and U's GET of the returned id then yields that title,
\* content and mood, userId U.id, the clock's createdAt and an id the server
\* chose that no stored journal had; an accepted PUT leaves id, createdAt and
\* every field its body does not carry as they were, and touches no other
\* journal.
C12_RoundTrip ==
  \A c \in Clients :
    LET p == session[c]
    IN isAuthenticated(p) =>
         /\ \A body \in JournalBodies :
              LET r == HPostJournal(backend, users, journals, journalSeq, now, p, body)
                  g == HGetJournal(r.journals, p, r.body.id)
              IN /\ {"title", "content", "mood"} \subseteq body.has /\ body.mood.num
                      => r.status = 201
                 /\ r.status = 201 =>
                      /\ g.status = 200
                      /\ g.body.title = body.title
                      /\ g.body.content = body.content
                      /\ g.body.mood = body.mood.v
                      /\ g.body.userId = p.id
                      /\ g.body.createdAt = now
                      /\ g.body.id = journalSeq
                      /\ g.body.id \notin DOMAIN journals
         /\ \A id \in DOMAIN journals, body \in JournalBodies :
              LET r == HPutJournal(backend, users, journals, p, id, body)
              IN r.status = 200 =>
                   /\ r.journals[id].id = id
                   /\ r.journals[id].createdAt = journals[id].createdAt
                   /\ \A f \in {"title", "content", "mood", "userId"} \ body.has :
                        r.journals[id][f] = journals[id][f]
                   /\ \A other \in DOMAIN journals \ {id} :
                        r.journals[other] = journals[other]
                   /\ DOMAIN r.journals = DOMAIN journals

\* A PUT that carried only a title has just been accepted: the stored
\* journal, created at the last instant of the clock, has the new title and
\* the content and mood it was created with, and its owner reads it back.
C12_Witness ==
  /\ last = Resp("putJournal", 200)
  /\ \E c \in Clients, id \in DOMAIN journals :
       /\ isAuthenticated(session[c])
       /\ journals[id].title = "T2"
       /\ journals[id].content = "C1"
       /\ journals[id].mood = 3
       /\ journals[id].createdAt = MaxClock
       /\ HGetJournal(journals, session[c], id).status = 200

\* C13: the id a create assigns is greater than every id assigned before to
\* an entity of the same kind, the ids of deleted journals included: so it is
\* for the next createUser, createJournal and createMood of every state.
C13_IdsNeverReused ==
  /\ \A body \in RegBodies :
       LET r == createUser(backend, users, userSeq, InsertUserOf(body))
       IN r.ok => /\ Cardinality(DOMAIN r.users \ DOMAIN users) = 1
                  /\ \A new \in DOMAIN r.users \ DOMAIN users, old \in DOMAIN users :
                       new > old /\ r.users[new].id = new
  /\ \A c \in Clients, body \in JournalBodies :
       LET r == HPostJournal(backend, users, journals, journalSeq, now, session[c],
                             body)
       IN r.status = 201 =>
            /\ \A old \in DOMAIN creator \cup DOMAIN journals : r.body.id > old
            /\ r.journals[r.body.id] = r.body
  /\ \A c \in Clients, body \in MoodBodies :
       LET r == HPostMood(backend, users, moods, moodSeq, now, session[c], body)
       IN r.status = 201 =>
            /\ \A old \in DOMAIN moods : r.body.id > old
            /\ r.moods[r.body.id] = r.body

\* The only journal created so far has just been deleted, and users and
\* moods are stored: the next creates follow a create of their kind, the
\* journal's a delete too.
C13_Witness ==
  /\ last = Resp("deleteJournal", 204)
  /\ journals = EmptyMap
  /\ DOMAIN creator # {}
  /\ moods # EmptyMap
  /\ Cardinality(DOMAIN users) >= 2
  /\ \E c \in Clients : isAuthenticated(session[c])

\* C14: deleteJournal(id) returns true exactly when a journal with that id
\* was stored, removes that journal and no other, and called again returns
\* false and changes nothing; the owner's second DELETE /journals/:id is
\* answered 404.  The stores are the one reached and the ones one more POST
\* leaves.
C14_DeleteOnce ==
  LET stores == {journals} \cup
                {HPostJournal(backend, users, journals, journalSeq, now, session[c],
                              body).journals : c \in Clients, body \in JournalBodies}
  IN \A js \in stores, id \in JournalIds :
       LET first == deleteJournal(js, id)
           second == deleteJournal(first.journals, id)
       IN /\ first.removed <=> id \in DOMAIN js
          /\ DOMAIN first.journals = DOMAIN js \ {id}
          /\ \A other \in DOMAIN js \ {id} : first.journals[other] = js[other]
          /\ ~second.removed
          /\ second.journals = first.journals
          /\ \A c \in Clients :
               LET r == HDeleteJournal(js, session[c], id)
               IN r.status = 204 =>
                    /\ r.journals = first.journals
                    /\ HDeleteJournal(r.journals, session[c], id).status = 404

\* A DELETE has just been answered 404 to a logged-in user whose journal was
\* created and is no longer stored.
C14_Witness ==
  /\ last = Resp("deleteJournal", 404)
  /\ \E c \in Clients, id \in DOMAIN creator :
       /\ isAuthenticated(session[c])
       /\ creator[id] = session[c].id
       /\ id \notin DOMAIN journals

\* C15: GET /moods/range answers an authenticated principal with 400, an
\* answer that does not depend on the mood store, when a bound is missing or
\* is no date, and with 200 only when both bounds are dates.
C15_RangeValidated ==
  \A c \in Clients, startDate \in DateParams, endDate \in DateParams :
    LET p == session[c]
        r == HMoodsRange(moods, p, startDate, endDate)
        valid == startDate.s = "iso" /\ endDate.s = "iso"
    IN isAuthenticated(p) =>
         /\ r.status = IF valid THEN 200 ELSE 400
         /\ ~valid => /\ r.body = <<>>
                      /\ r = HMoodsRange(EmptyMap, p, startDate, endDate)

\* A range request has just been answered 400 to a logged-in user who has a
\* mood stored at every instant a valid range could name.
C15_Witness ==
  /\ last = Resp("moodsRange", 400)
  /\ \E c \in Clients :
       /\ isAuthenticated(session[c])
       /\ \A t \in 0 .. MaxClock :
            \E m \in DOMAIN moods :
              moods[m].userId = session[c].id /\ moods[m].createdAt = t

\* C16: PUT /user/password changes the stored user only when currentPassword
\* matches the stored hash and newPassword equals confirmPassword; otherwise
\* it answers 400 and the user store is as it was.  An accepted request
\* changes the password hash of the principal's user, to the hash of
\* newPassword, and nothing else.
C16_PasswordGuarded ==
  \A c \in Clients, body \in PasswordBodies :
    LET p == session[c]
        stored == getUser(users, p.id)
        r == HUpdatePassword(users, p, body)
        matches == stored.password = hashPassword(body.currentPassword)
        confirmed == body.newPassword = body.confirmPassword
    IN isAuthenticated(p) =>
         /\ r.users # users => matches /\ confirmed
         /\ ~matches \/ ~confirmed => r.status = 400 /\ r.users = users
         /\ r.status \in {200, 400}
         /\ r.status = 400 => r.users = users
         /\ r.status = 200 =>
              /\ matches /\ confirmed
              /\ r.users = MapSet(users, p.id,
                                  [stored EXCEPT !.password =
                                                   hashPassword(body.newPassword)])
              /\ r.users[p.id].password # stored.password

\* A password change has just been refused with 400 to a logged-in user whose
\* stored hash comes from an earlier accepted change.
C16_Witness ==
  /\ last = Resp("updatePassword", 400)
  /\ \E c \in Clients :
       /\ isAuthenticated(session[c])
       /\ users[session[c].id].password = hashPassword("secret2")

\* C17: no two users have usernames equal ignoring letter case and no two
\* have the same email, in the store and in the store an accepted PUT
\* /user/profile leaves.
C17_UniqueUsers ==
  LET Unique(us) ==
        \A i \in DOMAIN us, j \in DOMAIN us :
          i # j => /\ toLowerCase(us[i].username) # toLowerCase(us[j].username)
                   /\ us[i].email # us[j].email
  IN /\ Unique(users)
     /\ \A c \in Clients, body \in ProfileBodies :
          LET r == HUpdateProfile(backend, users, session[c], body)
          IN r.status = 200 => Unique(r.users)

\* C18: two users with the same username are never both stored, and a
\* registration that is past its username check fails at its insert when the
\* username has been stored meanwhile.
C18_OneRegistrationWins ==
  /\ \A i \in DOMAIN users, j \in DOMAIN users :
       i # j => users[i].username # users[j].username
  /\ \A body \in RegBodies :
       /\ pendingReg[body] > 0
       /\ \E i \in DOMAIN users : users[i].username = body.username
       => ~createUser(backend, users, userSeq, InsertUserOf(body)).ok

\* C19: a request answered 401, 403 or 404 leaves the user, journal and mood
\* stores, their counters and the principal of the session as they were; a
\* request without a principal is answered 401 by every endpoint, with an
\* answer that does not depend on what the stores hold.
C19_FailuresChangeNothing ==
  LET Failed(status) == status \in {401, 403, 404}
  IN \A c \in Clients :
       LET p == session[c]
       IN /\ \A body \in JournalBodies :
               LET r == HPostJournal(backend, users, journals, journalSeq, now, p, body)
               IN Failed(r.status) =>
                    r.journals = journals /\ r.journalSeq = journalSeq
          /\ \A id \in JournalIds, body \in JournalBodies :
               LET r == HPutJournal(backend, users, journals, p, id, body)
               IN Failed(r.status) => r.journals = journals
          /\ \A id \in JournalIds :
               LET r == HDeleteJournal(journals, p, id)
               IN Failed(r.status) => r.journals = journals
          /\ \A body \in MoodBodies :
               LET r == HPostMood(backend, users, moods, moodSeq, now, p, body)
               IN Failed(r.status) => r.moods = moods /\ r.moodSeq = moodSeq
          /\ \A body \in ProfileBodies :
               LET r == HUpdateProfile(backend, users, p, body)
               IN Failed(r.status) => r.users = users /\ r.principal = p
          /\ \A body \in PasswordBodies :
               LET r == HUpdatePassword(users, p, body)
               IN Failed(r.status) => r.users = users /\ r.principal = p
          /\ LET r == HActivate(users, p)
             IN Failed(r.status) => r.users = users /\ r.principal = p
          /\ ~isAuthenticated(p) =>
               /\ HListJournals(journals, p) = HListJournals(EmptyMap, p)
               /\ HListJournals(journals, p).status = 401
               /\ HListMoods(moods, p) = HListMoods(EmptyMap, p)
               /\ HListMoods(moods, p).status = 401
               /\ HListMindfulness(p).status = 401
               /\ \A id \in SessionIds : HGetMindfulness(p, id).status = 401
               /\ \A s \in DateParams, e \in DateParams :
                    HMoodsRange(moods, p, s, e) = [status |-> 401, body |-> <<>>]
               /\ \A id \in JournalIds :
                    /\ HGetJournal(journals, p, id) = HGetJournal(EmptyMap, p, id)
                    /\ HGetJournal(journals, p, id).status = 401
                    /\ HDeleteJournal(journals, p, id).status = 401
               /\ \A id \in JournalIds, body \in JournalBodies :
                    HPutJournal(backend, users, journals, p, id, body).status = 401
               /\ \A body \in JournalBodies :
                    HPostJournal(backend, users, journals, journalSeq, now, p,
                                 body).status = 401
               /\ \A body \in MoodBodies :
                    HPostMood(backend, users, moods, moodSeq, now, p, body).status = 401
               /\ \A body \in ProfileBodies :
                    HUpdateProfile(backend, users, p, body).status = 401
               /\ \A body \in PasswordBodies :
                    HUpdatePassword(users, p, body).status = 401
               /\ HActivate(users, p).status = 401

\* A PUT on a journal of another user has just been refused with 403, the
\* journal is stored, and another id names no journal.
C19_Witness ==
  /\ last = Resp("putJournal", 403)
  /\ \E c \in Clients, id \in DOMAIN journals :
       /\ isAuthenticated(session[c])
       /\ HPutJournal(backend, users, journals, session[c], id,
                      JournalBody({"title", "id"}, "T2", "", NotNum, 0)).status = 403
  /\ JournalIds \ DOMAIN journals # {}
  /\ \E c \in Clients : ~isAuthenticated(session[c])

\* C20: when the store operation of a journal or mood request fails although
\* the request is authenticated, authorised and has passed validation, the
\* answer is 500.
C20_StoreFailureIs500 ==
  \A c \in Clients :
    LET p == session[c]
    IN isAuthenticated(p) =>
         /\ \A id \in DOMAIN journals, body \in JournalBodies :
              LET parsed == insertJournalSchema_partial_parse(body)
              IN /\ journals[id].userId = p.id
                 /\ parsed.ok
                 /\ ~updateJournal(backend, users, journals, id, parsed.data).ok
                 => HPutJournal(backend, users, journals, p, id, body).status = 500
         /\ \A body \in JournalBodies :
              LET parsed == insertJournalSchema_parse(
                              [body EXCEPT !.has = @ \cup {"userId"}, !.userId = p.id])
              IN /\ parsed.ok
                 /\ ~createJournal(backend, users, journals, journalSeq, now,
                                   parsed.data).ok
                 => HPostJournal(backend, users, journals, journalSeq, now, p,
                                 body).status = 500
         /\ \A body \in MoodBodies :
              LET parsed == insertMoodSchema_parse(
                              [body EXCEPT !.has = @ \cup {"userId"}, !.userId = p.id])
              IN /\ parsed.ok
                 /\ ~createMood(backend, users, moods, moodSeq, now, parsed.data).ok
                 => HPostMood(backend, users, moods, moodSeq, now, p, body).status = 500

C22_WebhookVerified ==
  \A event \in Events \cup {NoEvent}, sigOk \in BOOLEAN :
    ~sigOk \/ event = NoEvent => HWebhook(users, event).users = users

\* C23: the write of an update in flight changes only the fields its body
\* names, so a field written by another update meanwhile keeps its value.
C23_LastWriteWins ==
  [][\A request \in putPending :
       /\ putPending' = putPending \ {request}
       /\ request.id \in DOMAIN journals
       /\ request.id \in DOMAIN journals'
       => LET before == journals[request.id]
              after == journals'[request.id]
              has == request.journal.has
          IN /\ "title" \notin has => after.title = before.title
             /\ "content" \notin has => after.content = before.content
             /\ "mood" \notin has => after.mood = before.mood
             /\ after = MergeJournal(before, request.journal)]_vars

\* C24: a journal id enters the store only as the fresh id of a creation; an
\* id that has left the store is never stored again.
C24_NoReinsert ==
  [][\A id \in DOMAIN journals' : id \notin DOMAIN journals => id >= journalSeq]_vars

Rose(us, new, i) == ~us[i].isPremium /\ new[i].isPremium
Fell(us, new, i) == us[i].isPremium /\ ~new[i].isPremium

\* What each handler that writes the user store does to the flags, in the
\* current state: the premium handlers raise only the flag of the caller, the
\* webhooks change only the flag of the holder of the event's subscription,
\* the profile and password handlers change none, createUser stores FALSE.
PremiumHandlers ==
  LET Kept(us, new) == /\ DOMAIN new = DOMAIN us
                       /\ \A i \in DOMAIN us : new[i].isPremium = us[i].isPremium
      ByCaller(us, new, p) ==
        /\ DOMAIN new = DOMAIN us
        /\ \A i \in DOMAIN us :
             /\ ~Fell(us, new, i)
             /\ Rose(us, new, i) => i = p.id
      ByEvent(us, new, event) ==
        /\ DOMAIN new = DOMAIN us
        /\ \A i \in DOMAIN us :
             /\ Rose(us, new, i) =>
                  /\ event.type = "customer.subscription.updated"
                  /\ event.status = "active"
                  /\ us[i].stripeSubscriptionId = event.sub
             /\ Fell(us, new, i) =>
                  /\ event.type = "customer.subscription.deleted"
                  /\ us[i].stripeSubscriptionId = event.sub
  IN /\ \A c \in Clients :
          LET p == session[c]
          IN /\ ByCaller(users, HActivate(users, p).users, p)
             /\ \A stripeOk \in BOOLEAN :
                  ByCaller(users,
                           HCreateSubscriptionStripe(users, p, stripeOk, subSeq).users,
                           p)
             /\ \A body \in ProfileBodies :
                  Kept(users, HUpdateProfile(backend, users, p, body).users)
             /\ \A body \in PasswordBodies :
                  Kept(users, HUpdatePassword(users, p, body).users)
     /\ \A event \in Events \cup {NoEvent} :
          /\ ByEvent(users, HWebhook(users, event).users, event)
          /\ \A secret \in BOOLEAN, sigOk \in BOOLEAN :
               ByEvent(users,
                       HWebhookSigned(backend, users, secret, sigOk, event).users,
                       event)
     /\ \A body \in RegBodies :
          LET r == createUser(backend, users, userSeq, InsertUserOf(body))
          IN r.ok => ~r.user.isPremium /\ ~r.users[r.user.id].isPremium

\* The requests that change a flag in a step: a user appears with FALSE
\* through registration, a flag is raised by a premium or webhook request and
\* lowered by a webhook request.
PremiumSteps ==
  /\ \A i \in DOMAIN users' :
       i \notin DOMAIN users => ~users'[i].isPremium /\ last'.op = "register"
  /\ \A i \in DOMAIN users :
       /\ i \in DOMAIN users'
       /\ Rose(users, users', i) =>
            last'.op \in {"activate", "createSubscription",
                          "createSubscriptionStripe", "webhook", "webhookSigned"}
       /\ Fell(users, users', i) => last'.op = "webhook"

\* C26: a stored isPremium starts FALSE; it becomes TRUE only through the
\* user's own activation or create-subscription request or an active
\* subscription.updated event of the user's subscription id; it becomes FALSE
\* only through a subscription.deleted event of the user's subscription id;
\* profile and password requests never change it.
C26_PremiumTransitions == []PremiumHandlers /\ [][PremiumSteps]_vars

\* A subscription.deleted event has just been answered and a user who holds
\* a subscription is stored as not premium, while another user is premium
\* without a subscription.
C26_Witness ==
  /\ last = Resp("webhook", 200)
  /\ \E i \in DOMAIN users :
       users[i].stripeSubscriptionId # 0 /\ ~users[i].isPremium
  /\ \E i \in DOMAIN users :
       users[i].stripeSubscriptionId = 0 /\ users[i].isPremium

\* C27: an event whose subscription id no stored user holds, a
\* subscription.updated event whose status is not active and an event of any
\* other type are answered 200 and leave the user store as it is.
C27_UnmatchedEventNoOp ==
  \A event \in Events :
    LET unmatched == \A i \in DOMAIN users : users[i].stripeSubscriptionId # event.sub
        inactive == event.type = "customer.subscription.updated"
                    /\ event.status # "active"
        other == event.type \notin {"customer.subscription.updated",
                                    "customer.subscription.deleted"}
    IN unmatched \/ inactive \/ other =>
         /\ HWebhook(users, event) = [status |-> 200, users |-> users]
         /\ HWebhookSigned(backend, users, TRUE, TRUE, event)
              = [status |-> 200, users |-> users]

\* A webhook request has just been answered 200 while a premium user holds
\* subscription 1, another user is stored without a subscription, and no user
\* holds the other subscription id events name.
C27_Witness ==
  /\ last = Resp("webhook", 200)
  /\ \E i \in DOMAIN users, j \in DOMAIN users :
       /\ users[i].stripeSubscriptionId = 1 /\ users[i].isPremium
       /\ users[j].stripeSubscriptionId = 0 /\ ~users[j].isPremium
  /\ \A i \in DOMAIN users : users[i].stripeSubscriptionId # MaxSubs + 1

\* C28: a stored mood is never changed and never removed: every step leaves
\* each stored mood in the store with the same id, userId, rating, note and
\* createdAt.
C28_MoodsAppendOnly ==
  [][\A id \in DOMAIN moods : id \in DOMAIN moods' /\ moods'[id] = moods[id]]_vars

\* A second mood has just been stored, later than the first and by the same
\* user.
C28_Witness ==
  /\ last = Resp("postMood", 201)
  /\ \E i \in DOMAIN moods, j \in DOMAIN moods :
       /\ i < j
       /\ moods[i].userId = moods[j].userId
       /\ moods[i].createdAt < moods[j].createdAt

\* C29: a PUT /api/user/profile answered 400 leaves the stored users and the
\* principal as they were, and a user who submits only their own username,
\* in the same or in another letter case, or their own email, is not refused.
C29_ProfileFailure ==
  \A c \in Clients, body \in ProfileBodies :
    LET p == session[c]
        r == HUpdateProfile(backend, users, p, body)
        own == /\ "username" \in body.has =>
                    toLowerCase(body.username) = toLowerCase(users[p.id].username)
               /\ "email" \in body.has => body.email = users[p.id].email
    IN /\ r.status = 400 => r.users = users /\ r.principal = p
       /\ /\ isAuthenticated(p)
          /\ p.id \in DOMAIN users
          /\ body.has # {}
          /\ userProfileSchema_parse(body)
          /\ own
          => r.status = 200

\* C30: getAllUsers returns the users 1..k in the order of their ids, where k
\* is the largest number up to the limit of the safety check such that the
\* lookups of 1..k all find a user and none throws; it never returns more
\* users than the limit.
C30_ScanPrefix ==
  /\ \A limit \in (1 .. MaxUsers) \cup {ScanLimit}, failing \in SUBSET (1 .. MaxUsers) :
       LET found == ScanUsers(users, 1, <<>>, limit, failing)
           Whole(k) == /\ k <= limit
                       /\ \A i \in 1 .. k : i \in DOMAIN users /\ i \notin failing
           k == Cardinality({n \in 1 .. userSeq : Whole(n)})
       IN /\ Len(found) = k
          /\ Len(found) <= limit
          /\ \A i \in 1 .. k : found[i] = users[i] /\ found[i].id = i
  /\ LET k == Cardinality({n \in 1 .. userSeq :
                             n <= ScanLimit /\ \A i \in 1 .. n : i \in DOMAIN users})
     IN getAllUsers(users) = [i \in 1 .. k |-> users[i]]

\* A webhook request has just scanned a store in which user 1 and user 3
\* exist and user 2 does not.
C30_Witness ==
  /\ last = Resp("webhook", 200)
  /\ DOMAIN users = {1, 3}
  /\ Len(getAllUsers(users)) = 1

====
